---- MODULE Spec2Model ----
(***************************************************************************)
(* Model of script.js: the route finder page of the Biratnagar traffic     *)
(* solution.  findRoute is an async function: every `await` is a point     *)
(* where it yields to the event loop, so several invocations can be in     *)
(* flight at once and interleave with clearMap and with clicks on routes.  *)
(*                                                                         *)
(* Coordinates are integers in units of 1/UnitsPerDegree of a degree, so   *)
(* that 0.15 and 0.05 degrees and the midpoint of two resolved places are  *)
(* exact.  The resolver returns even values (hundredths of a degree).      *)
(***************************************************************************)
EXTENDS Integers, Sequences, FiniteSets, TLC

\* Number of findRoute invocations in one behaviour.
MaxSearches == 2

Searches == 1..MaxSearches

UnitsPerDegree == 200

\* 0.15 degrees: midLat + 0.15 / midLat - 0.15
Offset == (15 * UnitsPerDegree) \div 100

\* 0.05 degrees: midLat + i * 0.05, midLon - i * 0.05
Step == (5 * UnitsPerDegree) \div 100

None == [none |-> TRUE]

\* simulatedHazards
simulatedHazards ==
    << [type |-> "Flooding",     reason |-> "Heavy rainfall reported"],
       [type |-> "Construction", reason |-> "Ongoing road maintenance"],
       [type |-> "Congestion",   reason |-> "High traffic volume"] >>

(***************************************************************************)
(* Inputs.  A text is a sequence of characters; the values of the two      *)
(* input fields are drawn from Texts.                                      *)
(***************************************************************************)
Texts == { <<>>, <<" ">>, <<" ", "K", " ">> }

IsSpace(c) == c \in {" ", "\t", "\n"}

RECURSIVE TrimLeft(_)
TrimLeft(t) ==
    IF t = <<>> THEN <<>>
    ELSE IF IsSpace(Head(t)) THEN TrimLeft(Tail(t)) ELSE t

RECURSIVE TrimRight(_)
TrimRight(t) ==
    IF t = <<>> THEN <<>>
    ELSE IF IsSpace(t[Len(t)]) THEN TrimRight(SubSeq(t, 1, Len(t) - 1)) ELSE t

\* the input taken as typed
Trim_NoTrim(t) == t

\* String.prototype.trim
Trim(t) == TrimRight(TrimLeft(t))

\* a guard that tests the start only
InputsAccepted_StartOnly(startName, endName) == startName # <<>>

\* the guard of `if (!startName || !endName)`, negated
InputsAccepted(startName, endName) == startName # <<>> /\ endName # <<>>

(***************************************************************************)
(* What the resolver (Nominatim) can answer: a place, with lat and lon as  *)
(* parseFloat returns them.  Pokhara (28.21, 83.99), Kathmandu             *)
(* (27.72, 85.32), and an answer outside the range of a coordinate.         *)
(***************************************************************************)
Deg(hundredths) == (hundredths * UnitsPerDegree) \div 100

Pokhara   == [lat |-> Deg(2821), lon |-> Deg(8399)]
Kathmandu == [lat |-> Deg(2772), lon |-> Deg(8532)]
OutOfRange == [lat |-> Deg(9100), lon |-> Deg(18100)]

Places == {Pokhara, Kathmandu, OutOfRange}

ValidCoordinate(c) ==
    /\ c.lat >= -90 * UnitsPerDegree /\ c.lat <= 90 * UnitsPerDegree
    /\ c.lon >= -180 * UnitsPerDegree /\ c.lon <= 180 * UnitsPerDegree

(***************************************************************************)
(* Layers.  Every L.marker / L.polyline call creates a new object; a       *)
(* search creates each of its layers once, so (owner, kind, idx) is the    *)
(* identity of the object and pts, label are its content.                  *)
(***************************************************************************)
Layer(s, kind, idx, pts, label) ==
    [owner |-> s, kind |-> kind, idx |-> idx, pts |-> pts, label |-> label]

LatLng(c) == <<c.lat, c.lon>>

\* (start.lat + end.lat) / 2, (start.lon + end.lon) / 2
Mid(a, b) == (a + b) \div 2

\* route A through the midpoint itself
RouteAcoords_NoOffset(start, end) ==
    << LatLng(start),
       <<Mid(start.lat, end.lat), Mid(start.lon, end.lon)>>,
       LatLng(end) >>

RouteAcoords(start, end) ==
    << LatLng(start),
       <<Mid(start.lat, end.lat) + Offset, Mid(start.lon, end.lon)>>,
       LatLng(end) >>

\* route B built with the offset of route A
RouteBcoords_SameOffset(start, end) ==
    << LatLng(start),
       <<Mid(start.lat, end.lat) + Offset, Mid(start.lon, end.lon)>>,
       LatLng(end) >>

RouteBcoords(start, end) ==
    << LatLng(start),
       <<Mid(start.lat, end.lat) - Offset, Mid(start.lon, end.lon)>>,
       LatLng(end) >>

\* hazards stepped in the same direction on both axes
HazardPos_SameSign(midLat, midLon, i) == <<midLat + i * Step, midLon + i * Step>>

\* the position of hazard i (i = 0, 1, 2) in the forEach
HazardPos(midLat, midLon, i) == <<midLat + i * Step, midLon - i * Step>>

\* the marker the forEach callback creates for simulatedHazards[i]
HazardMarker(s, midLat, midLon, i) ==
    Layer(s, "hazard", i, <<HazardPos(midLat, midLon, i)>>,
          simulatedHazards[i + 1].type)

\* the markers pushed by simulatedHazards.forEach, in order
HazardSeq(s, start, end) ==
    [k \in 1..Len(simulatedHazards) |->
        HazardMarker(s, Mid(start.lat, end.lat), Mid(start.lon, end.lon), k - 1)]

StartMarkerOf(s, start) == Layer(s, "startMarker", 0, <<LatLng(start)>>, "Start")
EndMarkerOf(s, end)     == Layer(s, "endMarker", 0, <<LatLng(end)>>, "Destination")
RouteAOf(s, start, end) == Layer(s, "routeA", 0, RouteAcoords(start, end), "red")
RouteBOf(s, start, end) == Layer(s, "routeB", 0, RouteBcoords(start, end), "green")

Range(f) == {f[i] : i \in DOMAIN f}

\* all the layers one completed search creates
SessionLayers(s, start, end) ==
    {StartMarkerOf(s, start), EndMarkerOf(s, end),
     RouteAOf(s, start, end), RouteBOf(s, start, end)}
        \cup Range(HazardSeq(s, start, end))

(***************************************************************************)
(* The texts written to #result.                                           *)
(***************************************************************************)
InitialText    == "initial"
TwoRoutesText  == "Two route options found"
RouteASelected == "Route A Selected: Recommended when speed is critical."
RouteBSelected == "Route B Selected: Recommended for safer and consistent travel."
NotFoundText   == "Location not found in Nepal. Try a nearby area, road, or landmark."
FetchErrorText == "fetch or json error"

(***************************************************************************)
(* State.                                                                  *)
(***************************************************************************)
VARIABLES
    layers,         \* the overlays on the map (map.addLayer / removeLayer)
    routeA, routeB, \* let routeA, routeB
    startMarker, endMarker,
    hazardMarkers,  \* let hazardMarkers = []
    result,         \* document.getElementById("result").innerHTML
    alerts,         \* number of alert() dialogs shown
    pc,             \* where each findRoute invocation is
    startName, endName, start, end,   \* the locals of each invocation
    geoCalls,       \* number of geocodeLocation calls each invocation made
    old,            \* history: the layers on the map when the invocation began
    overlapped,     \* history: invocations in flight together with another
    lastOp          \* history: the step that ran last, and its inputs

vars == << layers, routeA, routeB, startMarker, endMarker, hazardMarkers,
           result, alerts, pc, startName, endName, start, end, geoCalls,
           old, overlapped, lastOp >>

tracking == << routeA, routeB, startMarker, endMarker, hazardMarkers >>
locals   == << startName, endName, start, end >>

\* an invocation suspended at an await
Awaiting == {"fetchStart", "jsonStart", "fetchEnd", "jsonEnd"}

InFlight == {s \in Searches : pc[s] \in Awaiting}

Init ==
    /\ layers = {}
    /\ routeA = None /\ routeB = None
    /\ startMarker = None /\ endMarker = None
    /\ hazardMarkers = <<>>
    /\ result = InitialText
    /\ alerts = 0
    /\ pc = [s \in Searches |-> "idle"]
    /\ startName = [s \in Searches |-> None]
    /\ endName = [s \in Searches |-> None]
    /\ start = [s \in Searches |-> None]
    /\ end = [s \in Searches |-> None]
    /\ geoCalls = [s \in Searches |-> 0]
    /\ old = [s \in Searches |-> {}]
    /\ overlapped = {}
    /\ lastOp = [op |-> "init", search |-> 0, args |-> <<>>]

(***************************************************************************)
(* clearMap                                                                *)
(***************************************************************************)
\* the layers clearMap passes to map.removeLayer
Tracked(rA, rB, sM, eM, hM) == ({rA, rB, sM, eM} \ {None}) \cup Range(hM)

\* a clearMap that leaves the hazard markers on the map
ClearedLayers_KeepHazards(ls, rA, rB, sM, eM, hM) == ls \ ({rA, rB, sM, eM} \ {None})

\* the map after clearMap
ClearedLayers(ls, rA, rB, sM, eM, hM) == ls \ Tracked(rA, rB, sM, eM, hM)

\* a clearMap that does not reset the list
ClearedHazards_Keep(hM) == hM

\* the hazard list after clearMap
ClearedHazards(hM) == <<>>

\* the body of clearMap: routeA, routeB, startMarker, endMarker keep their value
clearMap ==
    /\ layers' = ClearedLayers(layers, routeA, routeB, startMarker, endMarker,
                               hazardMarkers)
    /\ hazardMarkers' = ClearedHazards(hazardMarkers)

\* clearMap called on its own
ClearMapCall ==
    /\ clearMap
    /\ lastOp' = [op |-> "clearMap", search |-> 0, args |-> <<>>]
    /\ UNCHANGED << routeA, routeB, startMarker, endMarker, result, alerts, pc,
                    locals, geoCalls, old, overlapped >>

(***************************************************************************)
(* findRoute                                                               *)
(***************************************************************************)
\* invocations are numbered in the order they are made
NextSearch(s) == pc[s] = "idle" /\ \A t \in Searches : t < s => pc[t] # "idle"

\* a findRoute that clears the map before it checks its inputs
FindRouteRejected_ClearsFirst(s, startText, endText) ==
    /\ NextSearch(s)
    /\ ~InputsAccepted(Trim(startText), Trim(endText))
    /\ clearMap
    /\ alerts' = alerts + 1
    /\ pc' = [pc EXCEPT ![s] = "rejected"]
    /\ old' = [old EXCEPT ![s] = layers]
    /\ lastOp' = [op |-> "rejected", search |-> s, args |-> <<startText, endText>>]
    /\ UNCHANGED << routeA, routeB, startMarker, endMarker, result, locals,
                    geoCalls, overlapped >>

\* findRoute with an empty start or destination: alert and return
FindRouteRejected(s, startText, endText) ==
    /\ NextSearch(s)
    /\ ~InputsAccepted(Trim(startText), Trim(endText))
    /\ alerts' = alerts + 1
    /\ pc' = [pc EXCEPT ![s] = "rejected"]
    /\ old' = [old EXCEPT ![s] = layers]
    /\ lastOp' = [op |-> "rejected", search |-> s, args |-> <<startText, endText>>]
    /\ UNCHANGED << layers, tracking, result, locals, geoCalls, overlapped >>

\* a findRoute that issues both geocodeLocation calls at once
FindRouteBegin_BothCalls(s, startText, endText) ==
    /\ NextSearch(s)
    /\ InputsAccepted(Trim(startText), Trim(endText))
    /\ clearMap
    /\ startName' = [startName EXCEPT ![s] = Trim(startText)]
    /\ endName' = [endName EXCEPT ![s] = Trim(endText)]
    /\ geoCalls' = [geoCalls EXCEPT ![s] = 2]
    /\ pc' = [pc EXCEPT ![s] = "fetchStart"]
    /\ old' = [old EXCEPT ![s] = layers]
    /\ overlapped' = IF InFlight = {} THEN overlapped
                     ELSE overlapped \cup InFlight \cup {s}
    /\ lastOp' = [op |-> "begin", search |-> s, args |-> <<startText, endText>>]
    /\ UNCHANGED << routeA, routeB, startMarker, endMarker, result, alerts,
                    start, end >>

\* findRoute up to its first await: clearMap(), then geocodeLocation(startName)
\* runs up to `await fetch(url)`
FindRouteBegin(s, startText, endText) ==
    /\ NextSearch(s)
    /\ InputsAccepted(Trim(startText), Trim(endText))
    /\ clearMap
    /\ startName' = [startName EXCEPT ![s] = Trim(startText)]
    /\ endName' = [endName EXCEPT ![s] = Trim(endText)]
    /\ geoCalls' = [geoCalls EXCEPT ![s] = 1]
    /\ pc' = [pc EXCEPT ![s] = "fetchStart"]
    /\ old' = [old EXCEPT ![s] = layers]
    /\ overlapped' = IF InFlight = {} THEN overlapped
                     ELSE overlapped \cup InFlight \cup {s}
    /\ lastOp' = [op |-> "begin", search |-> s, args |-> <<startText, endText>>]
    /\ UNCHANGED << routeA, routeB, startMarker, endMarker, result, alerts,
                    start, end >>

\* the locals of an invocation are gone once it has returned
Return(s) ==
    /\ startName' = [startName EXCEPT ![s] = None]
    /\ endName' = [endName EXCEPT ![s] = None]
    /\ start' = [start EXCEPT ![s] = None]
    /\ end' = [end EXCEPT ![s] = None]

\* a catch block that swallows the error
Catch_Silent(s, message) ==
    /\ pc' = [pc EXCEPT ![s] = "failed"]
    /\ Return(s)
    /\ lastOp' = [op |-> "failed", search |-> s, args |-> <<>>]
    /\ UNCHANGED << layers, tracking, result, alerts, geoCalls, old, overlapped >>

\* the catch block: the error message is written to #result
Catch(s, message) ==
    /\ result' = message
    /\ pc' = [pc EXCEPT ![s] = "failed"]
    /\ Return(s)
    /\ lastOp' = [op |-> "failed", search |-> s, args |-> <<>>]
    /\ UNCHANGED << layers, tracking, alerts, geoCalls, old, overlapped >>

\* `await fetch(url)` resolves: geocodeLocation goes on to `await response.json()`
FetchResolves(s) ==
    /\ pc[s] \in {"fetchStart", "fetchEnd"}
    /\ pc' = [pc EXCEPT ![s] = IF pc[s] = "fetchStart" THEN "jsonStart"
                                                        ELSE "jsonEnd"]
    /\ lastOp' = [op |-> "fetched", search |-> s, args |-> <<>>]
    /\ UNCHANGED << layers, tracking, result, alerts, locals, geoCalls, old,
                    overlapped >>

\* `await fetch(url)` or `await response.json()` rejects
FetchRejects(s) ==
    /\ pc[s] \in Awaiting
    /\ Catch(s, FetchErrorText)

\* response.json() resolves with an empty list: geocodeLocation throws
NotFound(s) ==
    /\ pc[s] \in {"jsonStart", "jsonEnd"}
    /\ Catch(s, NotFoundText)

\* a findRoute that shows the start marker as soon as the start is resolved
StartResolved_EagerMarker(s, place) ==
    /\ pc[s] = "jsonStart"
    /\ start' = [start EXCEPT ![s] = place]
    /\ startMarker' = StartMarkerOf(s, place)
    /\ layers' = layers \cup {StartMarkerOf(s, place)}
    /\ geoCalls' = [geoCalls EXCEPT ![s] = @ + 1]
    /\ pc' = [pc EXCEPT ![s] = "fetchEnd"]
    /\ lastOp' = [op |-> "startResolved", search |-> s, args |-> <<place>>]
    /\ UNCHANGED << routeA, routeB, endMarker, hazardMarkers, result, alerts,
                    startName, endName, end, old, overlapped >>

\* the start is resolved: `const start = ...`, then geocodeLocation(endName)
\* runs up to `await fetch(url)`
StartResolved(s, place) ==
    /\ pc[s] = "jsonStart"
    /\ start' = [start EXCEPT ![s] = place]
    /\ geoCalls' = [geoCalls EXCEPT ![s] = @ + 1]
    /\ pc' = [pc EXCEPT ![s] = "fetchEnd"]
    /\ lastOp' = [op |-> "startResolved", search |-> s, args |-> <<place>>]
    /\ UNCHANGED << layers, tracking, result, alerts, startName, endName, end,
                    old, overlapped >>

\* the end is resolved: `const end = ...`, then the rest of the try block runs
\* to the end without an await: markers, routes, hazards, text, click handlers
EndResolved(s, place) ==
    /\ pc[s] = "jsonEnd"
    /\ startMarker' = StartMarkerOf(s, start[s])
    /\ endMarker' = EndMarkerOf(s, place)
    /\ routeA' = RouteAOf(s, start[s], place)
    /\ routeB' = RouteBOf(s, start[s], place)
    /\ hazardMarkers' = hazardMarkers \o HazardSeq(s, start[s], place)
    /\ layers' = layers \cup SessionLayers(s, start[s], place)
    /\ result' = TwoRoutesText
    /\ pc' = [pc EXCEPT ![s] = "done"]
    /\ Return(s)
    /\ lastOp' = [op |-> "installed", search |-> s, args |-> <<start[s], place>>]
    /\ UNCHANGED << alerts, geoCalls, old, overlapped >>

(***************************************************************************)
(* Click handlers.  A route carries its handler from the step that put it  *)
(* on the map, and can be clicked while it is on the map.                  *)
(***************************************************************************)
\* the handlers of the two routes swapped
RouteAClickText_Swapped == RouteBSelected

RouteAClickText == RouteASelected

RouteBClickText == RouteBSelected

\* a handler that also takes the clicked route off the map
ClickRouteA_RemovesRoute(l) ==
    /\ l \in layers /\ l.kind = "routeA"
    /\ result' = RouteAClickText
    /\ layers' = layers \ {l}
    /\ lastOp' = [op |-> "clickA", search |-> l.owner, args |-> <<>>]
    /\ UNCHANGED << tracking, alerts, pc, locals, geoCalls, old, overlapped >>

ClickRouteA(l) ==
    /\ l \in layers /\ l.kind = "routeA"
    /\ result' = RouteAClickText
    /\ lastOp' = [op |-> "clickA", search |-> l.owner, args |-> <<>>]
    /\ UNCHANGED << layers, tracking, alerts, pc, locals, geoCalls, old,
                    overlapped >>

ClickRouteB(l) ==
    /\ l \in layers /\ l.kind = "routeB"
    /\ result' = RouteBClickText
    /\ lastOp' = [op |-> "clickB", search |-> l.owner, args |-> <<>>]
    /\ UNCHANGED << layers, tracking, alerts, pc, locals, geoCalls, old,
                    overlapped >>

Next ==
    \/ ClearMapCall
    \/ \E s \in Searches, a \in Texts, b \in Texts : FindRouteRejected(s, a, b)
    \/ \E s \in Searches, a \in Texts, b \in Texts : FindRouteBegin(s, a, b)
    \/ \E s \in Searches : FetchResolves(s)
    \/ \E s \in Searches : FetchRejects(s)
    \/ \E s \in Searches : NotFound(s)
    \/ \E s \in Searches, p \in Places : StartResolved(s, p)
    \/ \E s \in Searches, p \in Places : EndResolved(s, p)
    \/ \E l \in layers : ClickRouteA(l)
    \/ \E l \in layers : ClickRouteB(l)

Spec == Init /\ [][Next]_vars

\* the next thing the resolver does for invocation s: a pending fetch or json
\* promise settles, one way or the other
ResolverStep(s) ==
    \/ FetchResolves(s)
    \/ FetchRejects(s)
    \/ NotFound(s)
    \/ \E p \in Places : StartResolved(s, p)
    \/ \E p \in Places : EndResolved(s, p)

\* every pending promise of the resolver is settled eventually
LiveSpec == Spec /\ \A s \in Searches : WF_vars(ResolverStep(s))

(***************************************************************************)
(* Properties.                                                             *)
(***************************************************************************)
\* the layers on the map that search s created
OwnLayers(s) == {l \in layers : l.owner = s}

OfKind(ls, kind) == {l \in ls : l.kind = kind}

\* ls is one complete session of search s: a start marker, an end marker,
\* route A, route B and the hazard markers 0, 1, 2, and nothing else
IsSessionOf(ls, s) ==
    /\ \A l \in ls : l.owner = s
    /\ Cardinality(ls) = 7
    /\ \A k \in {"startMarker", "endMarker", "routeA", "routeB"} :
            Cardinality(OfKind(ls, k)) = 1
    /\ Cardinality(OfKind(ls, "hazard")) = 3
    /\ {l.idx : l \in OfKind(ls, "hazard")} = {0, 1, 2}

Installed(s) == lastOp.op = "installed" /\ lastOp.search = s

\* C1: when a search completes after a search started later has already
\* installed its session, the stale search puts no overlay on the map.
C1_StaleSearchDiscarded ==
    \A s \in Searches, t \in Searches :
        (s < t /\ pc[t] = "done" /\ Installed(s)) => OwnLayers(s) = {}

\* C2: when a search that ran with no other search in flight completes, and
\* the map showed exactly the session of an earlier search when it began, the
\* map holds exactly the new search's two routes, two endpoint markers and
\* three hazard markers, and nothing of the earlier search.
C2_SecondSessionOnly ==
    \A s \in Searches :
        ( /\ Installed(s)
          /\ s \notin overlapped
          /\ \E t \in Searches : IsSessionOf(old[s], t) )
        => /\ IsSessionOf(layers, s)
           /\ layers \cap old[s] = {}

C2_Witness ==
    \E s \in Searches :
        /\ Installed(s)
        /\ s \notin overlapped
        /\ \E t \in Searches : IsSessionOf(old[s], t)

\* C3: in every reachable state all overlays on the map were created by the
\* same search, and there are at most two routes, two endpoint markers and
\* three hazard markers.
C3_AtMostOneSession ==
    /\ \A l1 \in layers, l2 \in layers : l1.owner = l2.owner
    /\ Cardinality(OfKind(layers, "routeA") \cup OfKind(layers, "routeB")) <= 2
    /\ Cardinality(OfKind(layers, "startMarker") \cup OfKind(layers, "endMarker")) <= 2
    /\ Cardinality(OfKind(layers, "hazard")) <= 3

\* C4: while a search is suspended at an await it has no overlay on the map;
\* when it returns after a failure it has none, and when it returns after
\* success it has its complete session on the map.
C4_NoPartialSession ==
    \A s \in Searches :
        /\ pc[s] \in Awaiting => OwnLayers(s) = {}
        /\ pc[s] \in {"failed", "rejected"} => OwnLayers(s) = {}
        /\ Installed(s) => IsSessionOf(OwnLayers(s), s)

\* a search failed at the resolution of its end, after its start was resolved,
\* while the session of another search is displayed
C4_Witness ==
    \E s \in Searches :
        /\ pc[s] = "failed" /\ geoCalls[s] = 2
        /\ lastOp.op = "failed" /\ lastOp.search = s
        /\ layers # {}

\* search s replaces a displayed session: the map showed one complete session
\* when s began with accepted inputs
Replaces(s) ==
    /\ pc[s] \in Awaiting \cup {"done", "failed"}
    /\ \E t \in Searches : IsSessionOf(old[s], t)

\* C5 as stated: while a search that replaces a displayed session is suspended
\* at an await, exactly one of the old and the new session is on the map,
\* never both and never neither.
C5_AtomicReplace ==
    \A s \in Searches :
        (Replaces(s) /\ pc[s] \in Awaiting)
        => /\ ~(old[s] \cap layers # {} /\ OwnLayers(s) # {})
           /\ ~(old[s] \cap layers = {} /\ OwnLayers(s) = {})

\* C5 amended: once a search that replaces a displayed session has begun, no
\* overlay of the old session is on the map any more, so old and new overlays
\* are never on the map together; while that search is suspended at an await
\* neither the old nor the new overlays are on the map.
C5_ClearThenInstall ==
    \A s \in Searches :
        Replaces(s)
        => /\ old[s] \cap layers = {}
           /\ pc[s] \in Awaiting => OwnLayers(s) = {}

\* a session was displayed, a new search has begun and is being resolved
C5_Witness ==
    \E s \in Searches : Replaces(s) /\ pc[s] = "jsonEnd"

\* a text that trims to the empty text
Blank(t) == \A i \in 1..Len(t) : IsSpace(t[i])

\* C6: a findRoute whose start or end text is empty after trimming shows the
\* alert and makes no call to geocodeLocation, neither then nor later; an
\* alert is shown for these calls only.
C6_NoResolverCallOnEmptyInput ==
    /\ \A s \in Searches : pc[s] = "rejected" => geoCalls[s] = 0
    /\ alerts = Cardinality({s \in Searches : pc[s] = "rejected"})
    /\ \A s \in Searches :
        ( /\ lastOp.op \in {"begin", "rejected"} /\ lastOp.search = s
          /\ (Blank(lastOp.args[1]) \/ Blank(lastOp.args[2])) )
        => /\ pc[s] = "rejected"
           /\ geoCalls[s] = 0
           /\ alerts >= 1

\* findRoute was called with a start text and an end of blanks only
C6_Witness ==
    /\ lastOp.op = "rejected"
    /\ lastOp.args[1] # <<>> /\ ~Blank(lastOp.args[1])
    /\ lastOp.args[2] # <<>> /\ Blank(lastOp.args[2])

\* C7: clearMap applied to the state clearMap leaves is a no-op; right after
\* a clearMap, and before any search, clearMap changes neither the map nor
\* the hazard list, the hazard list is empty and no tracked overlay is on the
\* map.
C7_ClearIdempotent ==
    LET once  == ClearedLayers(layers, routeA, routeB, startMarker, endMarker,
                               hazardMarkers)
        onceH == ClearedHazards(hazardMarkers)
        twice == ClearedLayers(once, routeA, routeB, startMarker, endMarker, onceH)
        twiceH == ClearedHazards(onceH)
    IN  /\ twice = once /\ twiceH = onceH
        /\ lastOp.op \in {"init", "clearMap"}
            => /\ once = layers /\ onceH = hazardMarkers
               /\ hazardMarkers = <<>>
               /\ layers \cap Tracked(routeA, routeB, startMarker, endMarker,
                                      hazardMarkers) = {}
        /\ lastOp.op = "init" => layers = {}

\* clearMap has just run on a displayed session
C7_Witness ==
    /\ lastOp.op = "clearMap"
    /\ routeA # None /\ routeA \notin layers
    /\ layers = {}

\* C8: a click on route A leaves the route A explanation in #result, a click
\* on route B the route B explanation.
C8_ClickExplains ==
    /\ lastOp.op = "clickA"
        => result = "Route A Selected: Recommended when speed is critical."
    /\ lastOp.op = "clickB"
        => result = "Route B Selected: Recommended for safer and consistent travel."

\* route A of a search with out-of-range coordinates was clicked
C8_Witness ==
    /\ lastOp.op = "clickA"
    /\ \E l \in OfKind(layers, "routeA") :
            l.owner = lastOp.search /\ l.pts[1] = LatLng(OutOfRange)

\* the layer of the given kind (and index) that search s has on the map
TheLayer(s, kind, idx) ==
    CHOOSE l \in layers : l.owner = s /\ l.kind = kind /\ l.idx = idx

\* x is the mean of a and b moved by hundredths/100 of a degree
IsMeanPlus(x, a, b, hundredths) ==
    100 * (2 * x - (a + b)) = 2 * hundredths * UnitsPerDegree

\* C9: when a search with valid, different start and end has installed its
\* session, route A and route B have three points each, begin at the start
\* and end at the end, route A's interior point is the midpoint with the
\* latitude raised by 0.15, route B's the midpoint with the latitude lowered
\* by 0.15, and the two interior points differ.
C9_TwoDistinctRoutes ==
    \A s \in Searches :
        ( /\ Installed(s)
          /\ ValidCoordinate(lastOp.args[1]) /\ ValidCoordinate(lastOp.args[2])
          /\ lastOp.args[1] # lastOp.args[2] )
        => LET st == lastOp.args[1]
               en == lastOp.args[2]
               a  == TheLayer(s, "routeA", 0).pts
               b  == TheLayer(s, "routeB", 0).pts
           IN  /\ Len(a) = 3 /\ Len(b) = 3
               /\ a[1] = <<st.lat, st.lon>> /\ b[1] = <<st.lat, st.lon>>
               /\ a[3] = <<en.lat, en.lon>> /\ b[3] = <<en.lat, en.lon>>
               /\ IsMeanPlus(a[2][1], st.lat, en.lat, 15)
               /\ IsMeanPlus(a[2][2], st.lon, en.lon, 0)
               /\ IsMeanPlus(b[2][1], st.lat, en.lat, -15)
               /\ IsMeanPlus(b[2][2], st.lon, en.lon, 0)
               /\ a[2] # b[2]

\* a search from Pokhara to Kathmandu has installed its session
C9_Witness ==
    /\ lastOp.op = "installed"
    /\ lastOp.args = <<Pokhara, Kathmandu>>
    /\ OfKind(OwnLayers(lastOp.search), "routeB") # {}

\* C10: when a search has installed its session, it has pushed exactly three
\* hazard markers, at the end of hazardMarkers, for Flooding, Construction
\* and Congestion in this order, marker i at (midpoint latitude + i * 0.05,
\* midpoint longitude - i * 0.05); all three are on the map.
C10_HazardCatalog ==
    \A s \in Searches :
        Installed(s)
        => LET st == lastOp.args[1]
               en == lastOp.args[2]
               n  == Len(hazardMarkers)
               h(i) == hazardMarkers[n - 2 + i]
               types == <<"Flooding", "Construction", "Congestion">>
           IN  /\ n >= 3
               /\ Cardinality(OfKind(OwnLayers(s), "hazard")) = 3
               /\ {k \in 1..n : hazardMarkers[k].owner = s} = (n - 2)..n
               /\ \A i \in 0..2 :
                    /\ h(i) \in layers
                    /\ h(i).kind = "hazard"
                    /\ h(i).label = types[i + 1]
                    /\ Len(h(i).pts) = 1
                    /\ IsMeanPlus(h(i).pts[1][1], st.lat, en.lat, 5 * i)
                    /\ IsMeanPlus(h(i).pts[1][2], st.lon, en.lon, -5 * i)

\* a search has installed its session after an earlier session was cleared,
\* and the hazard list holds only its three markers
C10_Witness ==
    /\ lastOp.op = "installed"
    /\ Len(hazardMarkers) = 3
    /\ \E t \in Searches : t # lastOp.search /\ pc[t] = "done"

\* C11: a search never installs a session from a coordinate outside latitude
\* [-90, 90] or longitude [-180, 180]: a search whose start is resolved to
\* such a coordinate fails there, and every installed session has a valid
\* start and a valid end.
C11_InvalidCoordinateRejected ==
    \A s \in Searches :
        /\ (lastOp.op = "startResolved" /\ lastOp.search = s
                /\ ~ValidCoordinate(lastOp.args[1]))
            => (pc[s] = "failed" /\ OwnLayers(s) = {})
        /\ Installed(s)
            => (ValidCoordinate(lastOp.args[1]) /\ ValidCoordinate(lastOp.args[2]))

\* search s has just ended with its session installed and the route
\* explanation shown
SessionActive(s) ==
    /\ Installed(s)
    /\ pc[s] = "done"
    /\ result = "Two route options found"
    /\ IsSessionOf(OwnLayers(s), s)

\* search s has just ended with an error explanation shown
Failed(s) ==
    /\ lastOp.op = "failed" /\ lastOp.search = s
    /\ pc[s] = "failed"
    /\ result \in {"Location not found in Nepal. Try a nearby area, road, or landmark.",
                   "fetch or json error"}

\* C12: if every resolver call eventually returns or fails, every search begun
\* with two non-empty inputs eventually ends with its session installed and
\* the route explanation shown, or with an error explanation shown.
\* Stated as: no search stays suspended at an await forever, and in the step
\* in which a search leaves its last await it is in one of the two end states.
C12_SearchEnds ==
    /\ \A s \in Searches : <>[](pc[s] \notin Awaiting)
    /\ [][ \A s \in Searches :
              (pc[s] \in Awaiting /\ pc'[s] \notin Awaiting)
              => (SessionActive(s) \/ Failed(s))'
         ]_vars

\* after a failed search, a later search has ended with its session installed
C12_Witness ==
    \E s \in Searches, t \in Searches :
        s < t /\ pc[s] = "failed" /\ s \notin overlapped /\ SessionActive(t)

\* the layers of search s that are on the map or held by a tracking variable
KnownLayers(s) ==
    {l \in layers \cup Tracked(routeA, routeB, startMarker, endMarker,
                               hazardMarkers) : l.owner = s}

\* C13: a search that has not had both its start and its end resolved has
\* created no marker, route or hazard marker, on the map or in a tracking
\* variable; this stays so when either resolution fails; a session is
\* installed from two resolver answers only.
C13_NothingBeforeBothResolved ==
    \A s \in Searches :
        /\ pc[s] # "done" => KnownLayers(s) = {}
        /\ Installed(s)
            => /\ geoCalls[s] = 2
               /\ lastOp.args[1] \in Places /\ lastOp.args[2] \in Places

\* the start of a search is resolved, its end is not yet, and nothing of it is
\* on the map
C13_Witness ==
    \E s \in Searches :
        /\ pc[s] = "fetchEnd"
        /\ lastOp.op = "startResolved" /\ lastOp.search = s
        /\ start[s] \in Places

\* C14: when a search with accepted inputs begins while exactly one session is
\* displayed and no other search is in flight, the map holds no overlay while
\* that search is being resolved, and none when it fails.
C14_OldSessionDestroyedAtStart ==
    \A s \in Searches :
        (s \notin overlapped /\ \E t \in Searches : IsSessionOf(old[s], t))
        => /\ pc[s] \in Awaiting => layers = {}
           /\ (lastOp.op = "failed" /\ lastOp.search = s) => layers = {}

\* a search that replaced a displayed session has failed, alone in flight
C14_Witness ==
    \E s \in Searches :
        /\ lastOp.op = "failed" /\ lastOp.search = s
        /\ s \notin overlapped
        /\ \E t \in Searches : IsSessionOf(old[s], t)

\* C15: a click on route A or route B makes no resolver call, moves no search,
\* and leaves the map and routeA, routeB, startMarker, endMarker and
\* hazardMarkers as they are; #result then shows the explanation of the route
\* clicked last.
C15_ClickChangesOnlyText ==
    [][ lastOp'.op \in {"clickA", "clickB"}
        => /\ layers' = layers
           /\ tracking' = tracking
           /\ geoCalls' = geoCalls
           /\ pc' = pc
           /\ result' = IF lastOp'.op = "clickA"
                        THEN "Route A Selected: Recommended when speed is critical."
                        ELSE "Route B Selected: Recommended for safer and consistent travel."
      ]_vars

\* route B was clicked with a complete session on the map
C15_Witness ==
    /\ lastOp.op = "clickB"
    /\ IsSessionOf(layers, lastOp.search)
    /\ routeB \in layers

\* C16 as stated: when the start and the end are resolved to the same
\* coordinate, every point of route A and of route B is that coordinate.
C16_ZeroDivergence ==
    \A s \in Searches :
        (Installed(s) /\ lastOp.args[1] = lastOp.args[2])
        => \A k \in {"routeA", "routeB"} :
              \A i \in 1..3 : TheLayer(s, k, 0).pts[i] = LatLng(lastOp.args[1])

\* C16 amended: when the start and the end are resolved to the same
\* coordinate, both routes are installed, have three points, begin and end at
\* that coordinate, and their interior points are that coordinate with the
\* latitude raised by 0.15 (route A) and lowered by 0.15 (route B).
C16_SamePointStillDiverges ==
    \A s \in Searches :
        (Installed(s) /\ lastOp.args[1] = lastOp.args[2])
        => LET c == lastOp.args[1]
               a == TheLayer(s, "routeA", 0).pts
               b == TheLayer(s, "routeB", 0).pts
           IN  /\ pc[s] = "done"
               /\ Len(a) = 3 /\ Len(b) = 3
               /\ a[1] = <<c.lat, c.lon>> /\ a[3] = <<c.lat, c.lon>>
               /\ b[1] = <<c.lat, c.lon>> /\ b[3] = <<c.lat, c.lon>>
               /\ 100 * (a[2][1] - c.lat) = 15 * UnitsPerDegree
               /\ 100 * (c.lat - b[2][1]) = 15 * UnitsPerDegree
               /\ a[2][2] = c.lon /\ b[2][2] = c.lon

\* a search from Pokhara to Pokhara has installed its session
C16_Witness ==
    /\ lastOp.op = "installed"
    /\ lastOp.args = <<Pokhara, Pokhara>>
    /\ OfKind(OwnLayers(lastOp.search), "routeA") # {}

\* C17: every overlay on the map is held by routeA, routeB, startMarker,
\* endMarker or hazardMarkers, and right after a clearMap the map is empty.
C17_EveryOverlayTracked ==
    /\ layers \subseteq Tracked(routeA, routeB, startMarker, endMarker,
                                hazardMarkers)
    /\ lastOp.op = "clearMap" => layers = {}

\* C18: a search makes its geocodeLocation call for the end only in the step
\* in which its call for the start has returned a place; while the call for
\* the start is pending it has made one call, while the call for the end is
\* pending it has made two and holds the resolved start; a search whose start
\* resolution fails never makes a second call.
C18_SequentialResolution ==
    /\ [](\A s \in Searches :
            /\ pc[s] \in {"idle", "rejected"} => geoCalls[s] = 0
            /\ pc[s] \in {"fetchStart", "jsonStart"}
                => (geoCalls[s] = 1 /\ start[s] = None)
            /\ pc[s] \in {"fetchEnd", "jsonEnd"}
                => (geoCalls[s] = 2 /\ start[s] \in Places)
            /\ geoCalls[s] <= 2)
    /\ [][ \A s \in Searches :
            /\ (geoCalls[s] = 1 /\ geoCalls'[s] # 1)
                => /\ geoCalls'[s] = 2
                   /\ pc[s] = "jsonStart"
                   /\ lastOp' = [op |-> "startResolved", search |-> s,
                                 args |-> <<start'[s]>>]
                   /\ start'[s] \in Places
            /\ (pc[s] \in {"fetchStart", "jsonStart"} /\ pc'[s] = "failed")
                => geoCalls'[s] = 1
            /\ pc[s] = "failed" => geoCalls'[s] = geoCalls[s]
         ]_vars

\* the resolution of the start of a search has failed
C18_Witness ==
    \E s \in Searches :
        /\ lastOp.op = "failed" /\ lastOp.search = s
        /\ pc[s] = "failed" /\ geoCalls[s] = 1

\* C19: a findRoute rejected for an empty start or end changes neither the
\* map nor routeA, routeB, startMarker, endMarker, hazardMarkers nor #result,
\* and makes no resolver call; a session on the map stays there.
C19_RejectedSearchChangesNothing ==
    [][ lastOp'.op = "rejected"
        => /\ layers' = layers
           /\ tracking' = tracking
           /\ result' = result
           /\ geoCalls' = geoCalls
      ]_vars

\* a findRoute was rejected while a complete session was displayed
C19_Witness ==
    /\ lastOp.op = "rejected"
    /\ \E t \in Searches : IsSessionOf(layers, t) /\ routeA \in layers
    /\ layers = old[lastOp.search]

====
